---- MODULE Spec2Model ----
(***************************************************************************)
(* ApiValidatorConstraint (validator.constraint.ts): the remote field      *)
(* validator.  validate(value, args) is an async function; its synchronous *)
(* prefix runs up to `await fetch(...)`, its second segment from the       *)
(* settlement of fetch up to `await response.json()`, and its last segment *)
(* from the settlement of json() up to the return.  The deadline timer     *)
(* callback and the remote endpoint are the other actors.                  *)
(*                                                                         *)
(* JavaScript values are tagged records; strings are sequences of          *)
(* one-character strings so that includes / replace / toUpperCase /        *)
(* encodeURIComponent / JSON.stringify can be computed on them.            *)
(***************************************************************************)
EXTENDS Integers, Sequences, FiniteSets, TLC

(***************************************************************************)
(* JavaScript values                                                       *)
(***************************************************************************)
Undefined == [t |-> "undefined"]
Null == [t |-> "null"]
Str(s) == [t |-> "str", s |-> s]
Num(n) == [t |-> "num", n |-> n]
Bool(b) == [t |-> "bool", b |-> b]
\* an object literal with no own property, and one with the single key k
EmptyObj == [t |-> "obj0"]
Obj1(k, v) == [t |-> "obj", k |-> k, v |-> v]

\* ToBoolean: what `!value`, `a || b`, `c ? x : y` and `a && b` test
Truthy(v) ==
  CASE v.t = "undefined" -> FALSE
    [] v.t = "null" -> FALSE
    [] v.t = "str" -> Len(v.s) > 0
    [] v.t = "num" -> v.n # 0
    [] v.t = "bool" -> v.b
    [] OTHER -> TRUE

\* a ?? b
Nullish(v) == v.t \in {"undefined", "null"}

\* property read v[k] of a value (undefined when v has no such property)
GetProp(v, k) == IF v.t = "obj" /\ v.k = k THEN v.v ELSE Undefined

(***************************************************************************)
(* Strings                                                                 *)
(***************************************************************************)
S_get == <<"g", "e", "t">>
S_GET == <<"G", "E", "T">>
S_HEAD == <<"H", "E", "A", "D">>
S_POST == <<"P", "O", "S", "T">>
S_Put == <<"P", "u", "t">>
S_true == <<"t", "r", "u", "e">>
S_false == <<"f", "a", "l", "s", "e">>
S_null == <<"n", "u", "l", "l">>
S_objectObject ==
  <<"[", "o", "b", "j", "e", "c", "t", " ", "O", "b", "j", "e", "c", "t", "]">>

LowerLetters == <<"a", "b", "c", "d", "e", "f", "g", "h", "i", "j", "k", "l", "m",
                  "n", "o", "p", "q", "r", "s", "t", "u", "v", "w", "x", "y", "z">>
UpperLetters == <<"A", "B", "C", "D", "E", "F", "G", "H", "I", "J", "K", "L", "M",
                  "N", "O", "P", "Q", "R", "S", "T", "U", "V", "W", "X", "Y", "Z">>
Digits == <<"0", "1", "2", "3", "4", "5", "6", "7", "8", "9">>

SeqRange(s) == {s[i] : i \in 1..Len(s)}

UpperChar(c) ==
  IF c \in SeqRange(LowerLetters)
    THEN UpperLetters[CHOOSE i \in 1..Len(LowerLetters) : LowerLetters[i] = c]
    ELSE c

\* String.prototype.toUpperCase
ToUpperCase(s) == [i \in 1..Len(s) |-> UpperChar(s[i])]

\* does sub occur in s at position i
MatchAt(s, sub, i) ==
  /\ i >= 1
  /\ i + Len(sub) - 1 <= Len(s)
  /\ SubSeq(s, i, i + Len(sub) - 1) = sub

\* String.prototype.includes
Includes(s, sub) == \E i \in 1..(Len(s) + 1) : MatchAt(s, sub, i)

\* String.prototype.replace with a string pattern: the first occurrence only
Replace(s, sub, rep) ==
  IF ~Includes(s, sub) THEN s
  ELSE LET i == CHOOSE j \in 1..(Len(s) + 1) :
                  /\ MatchAt(s, sub, j)
                  /\ \A h \in 1..(j - 1) : ~MatchAt(s, sub, h)
       IN SubSeq(s, 1, i - 1) \o rep \o SubSeq(s, i + Len(sub), Len(s))

\* Number::toString for the non-negative integers of the model
RECURSIVE NatToString(_)
NatToString(n) ==
  IF n < 10 THEN <<Digits[n + 1]>>
  ELSE NatToString(n \div 10) \o <<Digits[(n % 10) + 1]>>

\* ToString, as applied by encodeURIComponent to its argument
JsToString(v) ==
  CASE v.t = "str" -> v.s
    [] v.t = "num" -> NatToString(v.n)
    [] v.t = "bool" -> IF v.b THEN S_true ELSE S_false
    [] v.t = "null" -> S_null
    [] v.t = "undefined" -> <<"u", "n", "d", "e", "f", "i", "n", "e", "d">>
    [] OTHER -> S_objectObject

\* the characters encodeURIComponent leaves alone
UriUnreserved ==
  SeqRange(LowerLetters) \cup SeqRange(UpperLetters) \cup SeqRange(Digits)
    \cup {"-", "_", ".", "!", "~", "*", "'", "(", ")"}

\* the percent-escape of the reserved characters the model uses
PercentEscape(c) ==
  CASE c = " " -> <<"%", "2", "0">>
    [] c = "/" -> <<"%", "2", "F">>
    [] c = ":" -> <<"%", "3", "A">>
    [] c = "[" -> <<"%", "5", "B">>
    [] c = "]" -> <<"%", "5", "D">>
    [] c = "%" -> <<"%", "2", "5">>
    [] c = "$" -> <<"%", "2", "4">>

RECURSIVE EncodeChars(_)
EncodeChars(s) ==
  IF s = <<>> THEN <<>>
  ELSE (IF Head(s) \in UriUnreserved THEN <<Head(s)>> ELSE PercentEscape(Head(s)))
         \o EncodeChars(Tail(s))

\* encodeURIComponent(value)
EncodeURIComponent(v) == EncodeChars(JsToString(v))

\* JSON string literal: quotes, with '"' and '\' escaped
RECURSIVE JsonEscape(_)
JsonEscape(s) ==
  IF s = <<>> THEN <<>>
  ELSE (IF Head(s) \in {"\"", "\\"} THEN <<"\\", Head(s)>> ELSE <<Head(s)>>)
         \o JsonEscape(Tail(s))

JsonQuote(s) == <<"\"">> \o JsonEscape(s) \o <<"\"">>

\* JSON.stringify: a JS string, or undefined for undefined; a property
\* whose value is undefined is left out of its object
RECURSIVE JsonText(_)
JsonText(v) ==
  CASE v.t = "null" -> S_null
    [] v.t = "str" -> JsonQuote(v.s)
    [] v.t = "num" -> NatToString(v.n)
    [] v.t = "bool" -> IF v.b THEN S_true ELSE S_false
    [] v.t = "obj0" -> <<"{", "}">>
    [] v.t = "obj" ->
         IF v.v.t = "undefined" THEN <<"{", "}">>
         ELSE <<"{">> \o JsonQuote(v.k) \o <<":">> \o JsonText(v.v) \o <<"}">>

JSONstringify(v) == IF v.t = "undefined" THEN Undefined ELSE Str(JsonText(v))

(***************************************************************************)
(* Inputs: the validated property, the values, the decorator options and   *)
(* the behaviours of the remote endpoint                                   *)
(***************************************************************************)
S_id == <<"i", "d">>
S_t == <<"t">>
S_k == <<"k">>
S_code == <<"c", "o", "d", "e">>
S_old == <<"o", "l", "d">>
S_new == <<"n", "e", "w">>
S_ab == <<"a", " ", "b">>
S_isRequired ==
  <<" ", "i", "s", " ", "r", "e", "q", "u", "i", "r", "e", "d", ".">>
S_isInvalid ==
  <<" ", "i", "s", " ", "i", "n", "v", "a", "l", "i", "d", " ", "a",
    "c", "c", "o", "r", "d", "i", "n", "g", " ", "t", "o", " ", "e",
    "x", "t", "e", "r", "n", "a", "l", " ", "v", "a", "l", "i", "d",
    "a", "t", "i", "o", "n", ".">>
\* the hosts: without placeholder, and with the placeholder of the property
HostPlain == <<"/", "v">>
HostParam == <<"/", "u", "/", ":", "i", "d">>

\* config.headers: { x: "1" }
HeadersX == Obj1(<<"x">>, Str(<<"1">>))

Calls == {1, 2, 3}

MaxTick == 1
DefaultTimeout == 5000

\* the outcome of calling a function: a return value or a thrown error
Return(v) == [thrown |-> FALSE, v |-> v]
Throw == [thrown |-> TRUE, v |-> Undefined]

\* config.mapBody: (value, object) => payload
\*   "wrap"  : (v) => ({ code: v })
\*   "field" : (v, dto) => dto.t
\*   "throws": () => { throw ... }
MapBodyFn(f, value, obj) ==
  CASE f = "wrap" -> Return(Obj1(S_code, value))
    [] f = "field" -> Return(obj[S_t])
    [] f = "throws" -> Throw

\* config.extractValue: (body) => any
\*   "pick"  : (body) => body.k
\*   "self"  : (body) => body
\*   "throws": () => { throw ... }
ExtractValueFn(f, body) ==
  CASE f = "pick" -> Return(GetProp(body, S_k))
    [] f = "self" -> Return(body)
    [] f = "throws" -> Throw

\* config.validate: ({ status, body }) => boolean
\*   "custom": ({ status, body }) => status === 300 || body === null
\*   "throws": () => { throw ... }
ValidateFn(f, status, body) ==
  CASE f = "custom" -> Return(Bool(status = 300 \/ body = Null))
    [] f = "throws" -> Throw

\* Response.ok of the Fetch standard
ResponseOk(status) == status \in 200..299

FalsyValues == {Null, Undefined, Str(<<>>), Num(0), Bool(FALSE)}
TruthyValues == {Str(S_ab), Num(7)}
Hosts == {HostPlain, HostParam}
Methods == {Undefined, Str(S_get), Str(S_HEAD), Str(S_POST), Str(S_Put)}
Requireds == {Undefined, Bool(TRUE), Bool(FALSE)}
Timeouts == {Undefined, Num(0), Num(MaxTick)}
MapBodies == {"unset", "wrap", "field", "throws"}
ExtractValues == {"unset", "pick", "self", "throws"}
Validates == {"unset", "custom", "throws"}
TargetFields == {Undefined, Str(<<>>), Str(S_t)}
\* what the field t of the instance holds before validation
OldFields == {Undefined, Num(0), Str(S_old)}
Statuses == {200, 299, 300}
\* what response.json() settles to: a rejection, or the parsed body
JsonOutcomes == {Throw, Return(Num(0)), Return(EmptyObj), Return(Obj1(S_k, Str(S_new)))}

\* the options a non-empty value is validated under; `required` is read
\* only when the value is empty (lines 107-108, 169), so it is not varied
Configs ==
  [host : Hosts, method : Methods, headers : {HeadersX}, required : {Bool(TRUE)},
   timeout : Timeouts, mapBody : MapBodies, extractValue : ExtractValues,
   validate : Validates, targetField : TargetFields]

\* the options an empty value is validated under; validate reads none of
\* them but `required` before it returns (lines 107-109)
EmptyConfigs ==
  [host : Hosts, method : {Undefined, Str(S_get)}, headers : {Undefined},
   required : Requireds,
   timeout : {Undefined, Num(0)}, mapBody : {"unset", "wrap", "throws"},
   extractValue : {"unset", "pick"}, validate : {"unset", "custom", "throws"},
   targetField : {Undefined, Str(S_t)}]

NoArgs == [value |-> Undefined, property |-> <<>>, config |-> Undefined]
Pending == [state |-> "pending", v |-> Undefined]
Fulfilled(v) == [state |-> "fulfilled", v |-> v]
Rejected(e) == [state |-> "rejected", v |-> e]
NoTimer == [state |-> "unset", set |-> 0, delay |-> 0, due |-> 0]
NoResponse == [status |-> 0, ok |-> FALSE]
NoMessage == <<>>

VARIABLES
  args,        \* per call: value, args.property, args.constraints[0]
  object,      \* args.object, the instance under validation (shared)
  pc,          \* per call: where the async function stands
  result,      \* per call: the promise validate returned
  fetchCalls,  \* per call: the calls of fetch(url, init)
  timer,       \* per call: the timer of setTimeout / clearTimeout
  aborted,     \* per call: controller.signal.aborted
  response,    \* per call: what fetch resolved to
  data,        \* per call: the local `data`
  trace,       \* per call: callbacks and effects, in order
  clock,       \* milliseconds
  snapshot,    \* per call: args.object as validate found it when called
  message      \* per call: what defaultMessage returned

vars == <<args, object, pc, result, fetchCalls, timer, aborted, response,
          data, trace, clock, snapshot, message>>

InitCall(c, value, config, old) ==
  /\ args = [d \in Calls |-> IF d = c
                THEN [value |-> value, property |-> S_id, config |-> config]
                ELSE NoArgs]
  /\ object = (S_id :> value) @@ (S_t :> old)
  /\ pc = [d \in Calls |-> IF d = c THEN "ready" ELSE "unused"]
  /\ result = [d \in Calls |-> Pending]
  /\ fetchCalls = [d \in Calls |-> <<>>]
  /\ timer = [d \in Calls |-> NoTimer]
  /\ aborted = [d \in Calls |-> FALSE]
  /\ response = [d \in Calls |-> NoResponse]
  /\ data = [d \in Calls |-> Null]
  /\ trace = [d \in Calls |-> <<>>]
  /\ clock = 0
  /\ snapshot = [d \in Calls |-> object]
  /\ message = [d \in Calls |-> NoMessage]

\* one call of validate is about to be made (the other activations are
\* unused), on an instance whose field `id` holds the value
Init ==
  \/ \E value \in TruthyValues, config \in Configs, old \in OldFields :
       InitCall(1, value, config, old)
  \/ \E value \in FalsyValues, config \in EmptyConfigs, old \in OldFields :
       InitCall(1, value, config, old)

(***************************************************************************)
(* validate, line by line                                                  *)
(***************************************************************************)
\* the value put into the URL as it is, not URL-encoded
ResolveUrlRaw(host, property, value) ==
  IF Includes(host, <<":">> \o property)
    THEN Replace(host, <<":">> \o property, JsToString(value))
    ELSE host

\* lines 112-115
ResolveUrl(host, property, value) ==
  IF Includes(host, <<":">> \o property)
    THEN Replace(host, <<":">> \o property, EncodeURIComponent(value))
    ELSE host

\* the method as configured, not upper-cased
RequestMethodAsIs(config) ==
  IF Truthy(config.method) THEN config.method.s ELSE S_POST

\* line 117
RequestMethod(config) ==
  ToUpperCase(IF Truthy(config.method) THEN config.method.s ELSE S_POST)

\* line 118
IsBodyAllowed(method) == method \notin {S_GET, S_HEAD}

\* a default payload that is the bare value instead of { [property]: value }
BodyDataBare(value, property, config, obj) ==
  IF IsBodyAllowed(RequestMethod(config))
    THEN IF config.mapBody # "unset"
           THEN MapBodyFn(config.mapBody, value, obj)
           ELSE Return(value)
    ELSE Return(Null)

\* a payload built without consulting config.mapBody (lines 37-39 of the
\* earlier RemoteApiValidatorConstraint)
BodyDataNoMap(value, property, config, obj) ==
  IF IsBodyAllowed(RequestMethod(config))
    THEN Return(Obj1(property, value))
    ELSE Return(Null)

\* a default payload that is an empty object, the value left out
BodyDataEmptyObject(value, property, config, obj) ==
  IF IsBodyAllowed(RequestMethod(config))
    THEN IF config.mapBody # "unset"
           THEN MapBodyFn(config.mapBody, value, obj)
           ELSE Return(EmptyObj)
    ELSE Return(Null)

\* lines 120-127: the outcome of building bodyData
BodyData(value, property, config, obj) ==
  IF IsBodyAllowed(RequestMethod(config))
    THEN IF config.mapBody # "unset"
           THEN MapBodyFn(config.mapBody, value, obj)
           ELSE Return(Obj1(property, value))
    ELSE Return(Null)

\* `config.timeout || 5000`
TimeoutOfOr(config) ==
  IF Truthy(config.timeout) THEN config.timeout.n ELSE DefaultTimeout

\* line 130
TimeoutOf(config) ==
  IF Nullish(config.timeout) THEN DefaultTimeout ELSE config.timeout.n

\* line 136
RequestBody(bodyData) ==
  IF Truthy(bodyData) THEN JSONstringify(bodyData) ELSE Undefined

\* lines 133-138: the arguments of fetch (the signal is aborted[c])
FetchInit(url, method, headers, bodyData) ==
  [url |-> url, method |-> method, headers |-> headers,
   body |-> RequestBody(bodyData)]

\* a check that takes only null and undefined for empty
IsEmptyNullish(value) == Nullish(value)

\* line 107
IsEmpty(value) == ~Truthy(value)

\* line 108
EmptyResult(config) == Bool(~Truthy(config.required))

\* what the trace records when an error is raised
ErrorEvents == {"throw", "networkError", "AbortError"}

\* a catch block that logs and rethrows
CaughtRethrow(c, events) ==
  /\ result' = [result EXCEPT ![c] = Rejected(Str(<<"e", "r", "r">>))]
  /\ trace' = [trace EXCEPT ![c] = @ \o events \o <<"logError">>]
  /\ pc' = [pc EXCEPT ![c] = "done"]

\* lines 161-164: the catch block
Caught(c, events) ==
  /\ result' = [result EXCEPT ![c] = Fulfilled(Bool(FALSE))]
  /\ trace' = [trace EXCEPT ![c] = @ \o events \o <<"logError">>]
  /\ pc' = [pc EXCEPT ![c] = "done"]

\* lines 104-138: the call of validate up to `await fetch(...)`
Validate(c) ==
  /\ pc[c] = "ready"
  /\ LET value == args[c].value
         config == args[c].config
         property == args[c].property
         bodyData == BodyData(value, property, config, object)
         called == IF IsBodyAllowed(RequestMethod(config)) /\ config.mapBody # "unset"
                     THEN <<"mapBody">> ELSE <<>>
     IN IF IsEmpty(value)
          THEN /\ result' = [result EXCEPT ![c] = Fulfilled(EmptyResult(config))]
               /\ pc' = [pc EXCEPT ![c] = "done"]
               /\ UNCHANGED <<fetchCalls, timer, trace>>
          ELSE IF bodyData.thrown
            THEN /\ Caught(c, called \o <<"throw">>)
                 /\ UNCHANGED <<fetchCalls, timer>>
            ELSE /\ timer' = [timer EXCEPT ![c] =
                        [state |-> "pending", set |-> clock,
                         delay |-> TimeoutOf(config),
                         due |-> clock + TimeoutOf(config)]]
                 /\ fetchCalls' = [fetchCalls EXCEPT ![c] = Append(@,
                        FetchInit(ResolveUrl(config.host, property, value),
                                  RequestMethod(config), config.headers,
                                  bodyData.v))]
                 /\ trace' = [trace EXCEPT ![c] = @ \o called \o <<"setTimeout", "fetch">>]
                 /\ pc' = [pc EXCEPT ![c] = "fetch"]
                 /\ UNCHANGED result
  /\ snapshot' = [snapshot EXCEPT ![c] = object]
  /\ UNCHANGED <<args, object, aborted, response, data, clock, message>>

\* lines 133-144: fetch resolves; the timer is cleared and json() is awaited
FetchResolve(c, status) ==
  /\ pc[c] = "fetch"
  /\ response' = [response EXCEPT ![c] =
        [status |-> status, ok |-> ResponseOk(status)]]
  /\ timer' = [timer EXCEPT ![c].state = "cleared"]
  /\ trace' = [trace EXCEPT ![c] = @ \o <<"clearTimeout">>]
  /\ pc' = [pc EXCEPT ![c] = "json"]
  /\ UNCHANGED <<args, object, result, fetchCalls, aborted, data, clock,
                 snapshot, message>>

\* a rejected fetch that is tried once more
FetchRejectRetry(c) ==
  /\ pc[c] = "fetch"
  /\ IF Len(fetchCalls[c]) < 2
       THEN /\ fetchCalls' = [fetchCalls EXCEPT ![c] = Append(@, @[1])]
            /\ trace' = [trace EXCEPT ![c] = @ \o <<"networkError", "fetch">>]
            /\ UNCHANGED <<result, pc>>
       ELSE /\ Caught(c, <<"networkError">>)
            /\ UNCHANGED fetchCalls
  /\ UNCHANGED <<args, object, timer, aborted, response, data, clock,
                 snapshot, message>>

\* lines 133, 161-164: fetch rejects with a network error
FetchReject(c) ==
  /\ pc[c] = "fetch"
  /\ Caught(c, <<"networkError">>)
  /\ UNCHANGED <<args, object, fetchCalls, timer, aborted, response, data,
                 clock, snapshot, message>>

\* line 131: the timer callback, controller.abort(); a fetch in flight
\* rejects with an AbortError, which the catch block turns into false
TimerFire(c) ==
  /\ timer[c].state = "pending"
  /\ clock >= timer[c].due
  /\ timer' = [timer EXCEPT ![c].state = "fired"]
  /\ aborted' = [aborted EXCEPT ![c] = TRUE]
  /\ IF pc[c] = "fetch"
       THEN Caught(c, <<"abort", "AbortError">>)
       ELSE /\ trace' = [trace EXCEPT ![c] = @ \o <<"abort">>]
            /\ UNCHANGED <<result, pc>>
  /\ UNCHANGED <<args, object, fetchCalls, response, data, clock,
                 snapshot, message>>

\* an injection of the whole body instead of the extracted value
ExtractionWritesBody(config, property, body, obj) ==
  IF config.extractValue # "unset" /\ Truthy(body)
    THEN LET extracted == ExtractValueFn(config.extractValue, body)
         IN IF extracted.thrown
              THEN [thrown |-> TRUE, called |-> <<"extractValue", "throw">>, object |-> obj]
              ELSE IF extracted.v # Undefined /\ Truthy(config.targetField)
                THEN [thrown |-> FALSE, called |-> <<"extractValue", "write">>,
                      object |-> [obj EXCEPT ![config.targetField.s] = body]]
                ELSE [thrown |-> FALSE, called |-> <<"extractValue">>, object |-> obj]
    ELSE [thrown |-> FALSE, called |-> <<>>, object |-> obj]

\* an injection that falls back to the validated property when no
\* targetField is configured
ExtractionDefaultTarget(config, property, body, obj) ==
  IF config.extractValue # "unset" /\ Truthy(body)
    THEN LET extracted == ExtractValueFn(config.extractValue, body)
             target == IF Truthy(config.targetField)
                         THEN config.targetField.s ELSE property
         IN IF extracted.thrown
              THEN [thrown |-> TRUE, called |-> <<"extractValue", "throw">>, object |-> obj]
              ELSE IF extracted.v # Undefined
                THEN [thrown |-> FALSE, called |-> <<"extractValue", "write">>,
                      object |-> [obj EXCEPT ![target] = extracted.v]]
                ELSE [thrown |-> FALSE, called |-> <<"extractValue">>, object |-> obj]
    ELSE [thrown |-> FALSE, called |-> <<>>, object |-> obj]

\* lines 147-154: the outcome of the extraction and the object after it
Extraction(config, property, body, obj) ==
  IF config.extractValue # "unset" /\ Truthy(body)
    THEN LET extracted == ExtractValueFn(config.extractValue, body)
         IN IF extracted.thrown
              THEN [thrown |-> TRUE, called |-> <<"extractValue", "throw">>, object |-> obj]
              ELSE IF extracted.v # Undefined /\ Truthy(config.targetField)
                THEN [thrown |-> FALSE, called |-> <<"extractValue", "write">>,
                      object |-> [obj EXCEPT ![config.targetField.s] = extracted.v]]
                ELSE [thrown |-> FALSE, called |-> <<"extractValue">>, object |-> obj]
    ELSE [thrown |-> FALSE, called |-> <<>>, object |-> obj]

\* a decision that asks the predicate only for a success status
DecisionOkFirst(config, resp, body) ==
  IF config.validate # "unset"
    THEN IF resp.ok THEN ValidateFn(config.validate, resp.status, body)
                    ELSE Return(Bool(FALSE))
    ELSE Return(Bool(resp.ok))

\* a default decision that takes every status below 400 for a success
DecisionBelow400(config, resp, body) ==
  IF config.validate # "unset"
    THEN ValidateFn(config.validate, resp.status, body)
    ELSE Return(Bool(resp.status < 400))

\* lines 156-160: the outcome of the final decision
Decision(config, resp, body) ==
  IF config.validate # "unset"
    THEN ValidateFn(config.validate, resp.status, body)
    ELSE Return(Bool(resp.ok))

\* a parse failure that leaves in `data` the body an earlier call obtained
ParsedBodyStale(json) ==
  IF json.thrown
    THEN LET earlier == {data[d] : d \in Calls} \ {Null}
         IN IF earlier = {} THEN Null ELSE CHOOSE body \in earlier : TRUE
    ELSE json.v

\* a parse failure that leaves an empty object in `data`
ParsedBodyEmptyObject(json) == IF json.thrown THEN EmptyObj ELSE json.v

\* lines 142-145: `data` after `await response.json()` inside its own try
ParsedBody(json) == IF json.thrown THEN Null ELSE json.v

\* an injection into the object as it was when validate was called, which
\* then takes the place of the object
JsonSettleStaleObject(c, json) ==
  /\ pc[c] = "json"
  /\ LET config == args[c].config
         body == ParsedBody(json)
         ext == Extraction(config, args[c].property, body, snapshot[c])
         dec == Decision(config, response[c], body)
         asked == IF config.validate # "unset" THEN <<"validate">> ELSE <<>>
         read == IF json.thrown THEN <<"unparseable">> ELSE <<"parsed">>
     IN /\ data' = [data EXCEPT ![c] = body]
        /\ object' = IF ext.called = <<"extractValue", "write">>
                       THEN ext.object ELSE object
        /\ IF ext.thrown
             THEN Caught(c, read \o ext.called)
             ELSE IF dec.thrown
               THEN Caught(c, read \o ext.called \o asked \o <<"throw">>)
               ELSE /\ result' = [result EXCEPT ![c] = Fulfilled(dec.v)]
                    /\ trace' = [trace EXCEPT ![c] = @ \o read \o ext.called \o asked]
                    /\ pc' = [pc EXCEPT ![c] = "done"]
  /\ UNCHANGED <<args, fetchCalls, timer, aborted, response, clock,
                 snapshot, message>>

\* a third suspension: the predicate awaited after the body was read
JsonSettleAwait(c, json) ==
  /\ pc[c] = "json"
  /\ data' = [data EXCEPT ![c] = ParsedBody(json)]
  /\ trace' = [trace EXCEPT ![c] =
        @ \o (IF json.thrown THEN <<"unparseable">> ELSE <<"parsed">>)]
  /\ pc' = [pc EXCEPT ![c] = "predicate"]
  /\ UNCHANGED <<args, object, result, fetchCalls, timer, aborted, response,
                 clock, snapshot, message>>

\* the predicate asked before the extraction and the injection
JsonSettlePredicateFirst(c, json) ==
  /\ pc[c] = "json"
  /\ LET config == args[c].config
         body == ParsedBody(json)
         ext == Extraction(config, args[c].property, body, object)
         dec == Decision(config, response[c], body)
         asked == IF config.validate # "unset" THEN <<"validate">> ELSE <<>>
         read == IF json.thrown THEN <<"unparseable">> ELSE <<"parsed">>
     IN /\ data' = [data EXCEPT ![c] = body]
        /\ IF dec.thrown
             THEN /\ Caught(c, read \o asked \o <<"throw">>)
                  /\ UNCHANGED object
             ELSE /\ object' = ext.object
                  /\ IF ext.thrown
                       THEN Caught(c, read \o asked \o ext.called)
                       ELSE /\ result' = [result EXCEPT ![c] = Fulfilled(dec.v)]
                            /\ trace' = [trace EXCEPT ![c] =
                                            @ \o read \o asked \o ext.called]
                            /\ pc' = [pc EXCEPT ![c] = "done"]
  /\ UNCHANGED <<args, fetchCalls, timer, aborted, response, clock,
                 snapshot, message>>

\* lines 142-164: response.json() settles; extraction, injection, decision
JsonSettle(c, json) ==
  /\ pc[c] = "json"
  /\ LET config == args[c].config
         body == ParsedBody(json)
         ext == Extraction(config, args[c].property, body, object)
         dec == Decision(config, response[c], body)
         asked == IF config.validate # "unset" THEN <<"validate">> ELSE <<>>
         read == IF json.thrown THEN <<"unparseable">> ELSE <<"parsed">>
     IN /\ data' = [data EXCEPT ![c] = body]
        /\ object' = ext.object
        /\ IF ext.thrown
             THEN Caught(c, read \o ext.called)
             ELSE IF dec.thrown
               THEN Caught(c, read \o ext.called \o asked \o <<"throw">>)
               ELSE /\ result' = [result EXCEPT ![c] = Fulfilled(dec.v)]
                    /\ trace' = [trace EXCEPT ![c] = @ \o read \o ext.called \o asked]
                    /\ pc' = [pc EXCEPT ![c] = "done"]
  /\ UNCHANGED <<args, fetchCalls, timer, aborted, response, clock,
                 snapshot, message>>

\* time passes, but never beyond the deadline of a pending timer; it is
\* tracked only while a timer is pending, millisecond by millisecond while
\* a request is in flight (up to MaxTick) and up to the next deadline
Tick ==
  /\ \E c \in Calls : timer[c].state = "pending"
  /\ \E next \in {clock + 1} \cup {timer[c].due : c \in Calls} :
       /\ next > clock
       /\ next = clock + 1 =>
            (clock < MaxTick /\ \E c \in Calls : pc[c] = "fetch")
       /\ \A c \in Calls : timer[c].state = "pending" => next <= timer[c].due
       /\ clock' = next
  /\ UNCHANGED <<args, object, pc, result, fetchCalls, timer, aborted,
                 response, data, trace, snapshot, message>>

\* a message that looks at config.required only
DefaultMessageRequiredOnly(value, property, config) ==
  IF Truthy(config.required)
    THEN property \o S_isRequired
    ELSE property \o S_isInvalid

\* lines 167-173
DefaultMessageOf(value, property, config) ==
  IF ~Truthy(value) /\ Truthy(config.required)
    THEN property \o S_isRequired
    ELSE property \o S_isInvalid

\* lines 167-173: the framework asks for the message of a failed validation
DefaultMessage(c) ==
  /\ pc[c] = "done"
  /\ result[c] = Fulfilled(Bool(FALSE))
  /\ message[c] = NoMessage
  /\ message' = [message EXCEPT ![c] =
        DefaultMessageOf(args[c].value, args[c].property, args[c].config)]
  /\ UNCHANGED <<args, object, pc, result, fetchCalls, timer, aborted,
                 response, data, trace, clock, snapshot>>

Next ==
  \/ \E c \in Calls : Validate(c)
  \/ \E c \in Calls, status \in Statuses : FetchResolve(c, status)
  \/ \E c \in Calls : FetchReject(c)
  \/ \E c \in Calls : TimerFire(c)
  \/ \E c \in Calls, json \in JsonOutcomes : JsonSettle(c, json)
  \/ \E c \in Calls : DefaultMessage(c)
  \/ Tick

Spec == Init /\ [][Next]_vars

(***************************************************************************)
(* URL resolution: one call, on hosts that hold the placeholder of the     *)
(* property not at all, once, as the prefix of a longer name, and twice    *)
(***************************************************************************)
HostPrefix == <<"/", "u", "/", ":", "i", "d", "x">>
HostTwice == <<"/", ":", "i", "d", "/", ":", "i", "d">>
UrlHosts == {HostPlain, HostParam, HostPrefix, HostTwice}
S_colonId == <<":", "i", "d">>
UrlValues == TruthyValues \cup {Str(S_colonId)}

UrlConfigs ==
  [host : UrlHosts, method : {Undefined, Str(S_get)}, headers : {Undefined},
   required : {Bool(TRUE)}, timeout : {Undefined, Num(0)},
   mapBody : {"unset", "field"},
   extractValue : {"unset"}, validate : {"unset"}, targetField : {Undefined}]

InitUrl ==
  \E value \in UrlValues, config \in UrlConfigs : InitCall(1, value, config, Undefined)

SpecUrl == InitUrl /\ [][Next]_vars

\* the event loop makes the call, lets time pass and runs a timer callback
\* that is due; when and whether fetch and response.json() settle is up to
\* the remote endpoint, which may never answer or never finish the body
SpecLive ==
  /\ InitUrl
  /\ [][Next]_vars
  /\ WF_vars(Tick)
  /\ \A c \in Calls : WF_vars(Validate(c)) /\ WF_vars(TimerFire(c))

(***************************************************************************)
(* Several calls on one constraint instance and one object, one after      *)
(* another: calls 1 and 3 are made with the same arguments, call 2, made   *)
(* between them, with others                                               *)
(***************************************************************************)
SameConfigs ==
  [host : {HostPlain}, method : {Undefined}, headers : {Undefined},
   required : {Bool(TRUE)}, timeout : {Undefined}, mapBody : {"unset", "field"},
   extractValue : {"self"}, validate : {"unset"}, targetField : {Str(S_t)}]
OtherConfigs ==
  [host : {HostParam}, method : {Undefined}, headers : {Undefined},
   required : {Bool(TRUE)}, timeout : {Undefined}, mapBody : {"unset"},
   extractValue : {"unset"}, validate : {"custom"}, targetField : {Undefined}]

\* the calls `made` are about to be made with the arguments `a`, on one object
InitCalls(a, made) ==
  /\ args = a
  /\ object = (S_id :> Num(7)) @@ (S_t :> Str(S_old))
  /\ pc = [d \in Calls |-> IF d \in made THEN "ready" ELSE "unused"]
  /\ result = [d \in Calls |-> Pending]
  /\ fetchCalls = [d \in Calls |-> <<>>]
  /\ timer = [d \in Calls |-> NoTimer]
  /\ aborted = [d \in Calls |-> FALSE]
  /\ response = [d \in Calls |-> NoResponse]
  /\ data = [d \in Calls |-> Null]
  /\ trace = [d \in Calls |-> <<>>]
  /\ clock = 0
  /\ snapshot = [d \in Calls |-> object]
  /\ message = [d \in Calls |-> NoMessage]

InitTurns ==
  \E same \in SameConfigs, other \in OtherConfigs :
    InitCalls([d \in Calls |->
                 IF d = 2
                   THEN [value |-> Str(S_ab), property |-> S_id, config |-> other]
                   ELSE [value |-> Num(7), property |-> S_id, config |-> same]],
              Calls)

\* a call is made when the calls before it have returned
ValidateInTurn(c) ==
  /\ \A d \in Calls : d < c => pc[d] = "done"
  /\ Validate(c)

NextTurns ==
  \/ \E c \in Calls : ValidateInTurn(c)
  \/ \E c \in Calls, status \in Statuses : FetchResolve(c, status)
  \/ \E c \in Calls : FetchReject(c)
  \/ \E c \in Calls : TimerFire(c)
  \/ \E c \in Calls, json \in JsonOutcomes : JsonSettle(c, json)
  \/ \E c \in Calls : DefaultMessage(c)
  \/ Tick

SpecTurns == InitTurns /\ [][NextTurns]_vars

\* two calls on one object, made in any order and running interleaved: what
\* the framework does with the validators of the fields of one object
InitPair ==
  \E same \in SameConfigs, other \in OtherConfigs :
    InitCalls([d \in Calls |->
                 CASE d = 1 -> [value |-> Num(7), property |-> S_id, config |-> same]
                   [] d = 2 -> [value |-> Str(S_ab), property |-> S_id, config |-> other]
                   [] OTHER -> NoArgs],
              {1, 2})

SpecPair == InitPair /\ [][Next]_vars

\* two validators of one object that both inject what they extract, into
\* the same field or into different fields; neither maps the body
S_u == <<"u">>
SharedObject == (S_id :> Num(7)) @@ (S_t :> Undefined) @@ (S_u :> Undefined)
FirstConfigs ==
  [host : {HostPlain}, method : {Undefined}, headers : {Undefined},
   required : {Bool(TRUE)}, timeout : {Undefined}, mapBody : {"unset"},
   extractValue : {"self"}, validate : {"unset", "custom"},
   targetField : {Str(S_t)}]
SecondConfigs ==
  [host : {HostParam}, method : {Str(S_get)}, headers : {Undefined},
   required : {Bool(TRUE)}, timeout : {Undefined}, mapBody : {"unset"},
   extractValue : {"pick"}, validate : {"unset"},
   targetField : {Str(S_t), Str(S_u)}]

InitShared ==
  \E first \in FirstConfigs, second \in SecondConfigs :
    /\ args = [d \in Calls |->
                 CASE d = 1 -> [value |-> Num(7), property |-> S_id, config |-> first]
                   [] d = 2 -> [value |-> Num(7), property |-> S_id, config |-> second]
                   [] OTHER -> NoArgs]
    /\ object = SharedObject
    /\ pc = [d \in Calls |-> IF d \in {1, 2} THEN "ready" ELSE "unused"]
    /\ result = [d \in Calls |-> Pending]
    /\ fetchCalls = [d \in Calls |-> <<>>]
    /\ timer = [d \in Calls |-> NoTimer]
    /\ aborted = [d \in Calls |-> FALSE]
    /\ response = [d \in Calls |-> NoResponse]
    /\ data = [d \in Calls |-> Null]
    /\ trace = [d \in Calls |-> <<>>]
    /\ clock = 0
    /\ snapshot = [d \in Calls |-> object]
    /\ message = [d \in Calls |-> NoMessage]

SpecShared == InitShared /\ [][Next]_vars

(***************************************************************************)
(* Properties                                                              *)
(***************************************************************************)
Has(c, event) == \E i \in DOMAIN trace[c] : trace[c][i] = event
Returned(c, b) == pc[c] = "done" /\ result[c] = Fulfilled(Bool(b))
Invoked(c) == pc[c] \notin {"unused", "ready"}

\* C1: for an empty/falsy value (null, undefined, "", 0, false) validate
\* returns the negation of config.required, and fetch is never called.
C1_EmptyValue ==
  \A c \in Calls :
    (pc[c] # "unused" /\ args[c].value \in FalsyValues) =>
      /\ fetchCalls[c] = <<>>
      /\ Invoked(c) => Returned(c, args[c].config.required # Bool(TRUE))

C1_Witness ==
  \E c \in Calls :
    /\ args[c].value = Num(0)
    /\ args[c].config.required = Bool(TRUE)
    /\ Returned(c, FALSE)
    /\ fetchCalls[c] = <<>>

\* C2: once an error is raised after the empty-value check (fetch rejects,
\* the request is aborted, or mapBody, extractValue or the predicate
\* throws), validate has returned false; its promise is never rejected.
C2_ErrorsYieldFalse ==
  \A c \in Calls :
    /\ result[c].state # "rejected"
    /\ (\E e \in ErrorEvents : Has(c, e)) => Returned(c, FALSE)

C2_Witness ==
  \E c \in Calls :
    /\ Has(c, "validate")
    /\ Has(c, "throw")
    /\ Returned(c, FALSE)

\* C3: the deadline timer is set to config.timeout when it is configured
\* (0 included) and to 5000 otherwise; a request in flight never outlives
\* the deadline, and when the timer fires on a request still unanswered the
\* request is aborted and validate returns false.
C3_Deadline ==
  \A c \in Calls :
    /\ timer[c].state # "unset" =>
         /\ timer[c].delay = (IF args[c].config.timeout = Undefined
                                THEN 5000 ELSE args[c].config.timeout.n)
         /\ timer[c].due = timer[c].set + timer[c].delay
    /\ pc[c] = "fetch" => (timer[c].state = "pending" /\ clock <= timer[c].due)
    /\ timer[c].state = "fired" => clock >= timer[c].due
    /\ (timer[c].state = "fired" /\ response[c] = NoResponse
          /\ ~Has(c, "networkError")) =>
         (aborted[c] /\ Has(c, "AbortError") /\ Returned(c, FALSE))

C3_Witness ==
  \E c \in Calls :
    /\ Invoked(c)
    /\ args[c].config.timeout = Undefined
    /\ timer[c].state = "fired"
    /\ clock = 5000
    /\ Has(c, "AbortError")
    /\ Returned(c, FALSE)

NoError(c) == \A e \in ErrorEvents : ~Has(c, e)
Completed(c) == pc[c] = "done" /\ response[c] # NoResponse
Predicate(c) == ValidateFn(args[c].config.validate, response[c].status, data[c])

\* C4 as stated: when a custom predicate is configured and the request
\* completes, validate returns the predicate's value on {status, body}.
C4_Original ==
  \A c \in Calls :
    (Completed(c) /\ args[c].config.validate = "custom") =>
      result[c] = Fulfilled(Predicate(c).v)

\* C4, amended: when a custom predicate is configured, the request completes
\* and no error is raised while the response is processed, validate returns
\* the predicate's value on {status, body}, for every status.
C4_PredicateDecides ==
  \A c \in Calls :
    (Completed(c) /\ args[c].config.validate # "unset" /\ NoError(c)) =>
      /\ ~Predicate(c).thrown
      /\ result[c] = Fulfilled(Predicate(c).v)

C4_Witness ==
  \E c \in Calls :
    /\ Completed(c)
    /\ args[c].config.validate = "custom"
    /\ NoError(c)
    /\ response[c].status = 300
    /\ Returned(c, TRUE)

\* C5: with no custom predicate, when the request completes without error
\* validate returns true if and only if the status is in 200..299.
C5_DefaultIs2xx ==
  \A c \in Calls :
    (Completed(c) /\ args[c].config.validate = "unset" /\ NoError(c)) =>
      Returned(c, response[c].status >= 200 /\ response[c].status <= 299)

C5_Witness ==
  \E c \in Calls :
    /\ Completed(c)
    /\ args[c].config.validate = "unset"
    /\ NoError(c)
    /\ response[c].status = 300
    /\ Returned(c, FALSE)

Configured(c) ==
  /\ args[c].config.extractValue \in {"pick", "self"}
  /\ Truthy(args[c].config.targetField)
Extracted(c) == ExtractValueFn(args[c].config.extractValue, data[c]).v

\* C6 as stated: with extractValue and targetField configured and a body
\* that parsed, object[targetField] equals extractValue(body) on return.
C6_Original ==
  \A c \in Calls :
    (Completed(c) /\ Configured(c) /\ Has(c, "parsed")) =>
      object[args[c].config.targetField.s] = Extracted(c)

\* C6, amended: with extractValue and a non-empty targetField configured, a
\* body that parsed to a truthy value and an extraction other than
\* undefined, object[targetField] equals extractValue(body) on return,
\* whether validate returned true or false.
C6_Injected ==
  \A c \in Calls :
    (Completed(c) /\ Configured(c) /\ Has(c, "parsed")
       /\ Truthy(data[c]) /\ Extracted(c) # Undefined) =>
      object[args[c].config.targetField.s] = Extracted(c)

C6_Witness ==
  \E c \in Calls :
    /\ Completed(c)
    /\ Configured(c)
    /\ args[c].config.extractValue = "pick"
    /\ object[S_t] = Str(S_new)
    /\ Returned(c, FALSE)

\* C7: a step changes the instance only in the field named by
\* config.targetField, and only as the step of a call that has extractValue
\* and targetField configured and has parsed the response body.
C7_Frame ==
  [][/\ DOMAIN object' = DOMAIN object
     /\ \A f \in DOMAIN object :
          object'[f] # object[f] =>
            \E c \in Calls :
              /\ pc[c] = "json" /\ pc'[c] = "done"
              /\ args[c].config.extractValue # "unset"
              /\ Truthy(args[c].config.targetField)
              /\ f = args[c].config.targetField.s
              /\ \E i \in DOMAIN trace'[c] : trace'[c][i] = "parsed"]_vars

C7_Witness ==
  \E c \in Calls :
    /\ Has(c, "write")
    /\ object[S_t] = Str(S_new)
    /\ object[S_id] = args[c].value
    /\ Returned(c, TRUE)

\* the spellings of GET and HEAD
GetHeadSpellings ==
  {S_get, S_GET, <<"G", "e", "t">>, S_HEAD, <<"h", "e", "a", "d">>,
   <<"H", "e", "a", "d">>}
IsGetOrHead(c) ==
  /\ args[c].config.method # Undefined
  /\ args[c].config.method.s \in GetHeadSpellings

\* C8: when the method is GET or HEAD in any letter case, mapBody is never
\* invoked and the request of a non-empty value is sent with no body.
C8_NoBodyForGetHead ==
  \A c \in Calls :
    (Invoked(c) /\ IsGetOrHead(c)) =>
      /\ ~Has(c, "mapBody")
      /\ Truthy(args[c].value) => Len(fetchCalls[c]) = 1
      /\ \A i \in DOMAIN fetchCalls[c] : fetchCalls[c][i].body = Undefined

C8_Witness ==
  \E c \in Calls :
    /\ Invoked(c)
    /\ args[c].config.method = Str(S_get)
    /\ args[c].config.mapBody = "throws"
    /\ Len(fetchCalls[c]) = 1
    /\ fetchCalls[c][1].method = S_GET
    /\ fetchCalls[c][1].body = Undefined

\* C9: when the method is unset or POST and no mapBody is configured, the
\* request of a non-empty value carries the JSON text of { [property]: value }.
C9_DefaultBody ==
  \A c \in Calls :
    (Invoked(c) /\ Truthy(args[c].value)
       /\ args[c].config.method \in {Undefined, Str(S_POST)}
       /\ args[c].config.mapBody = "unset") =>
      /\ Len(fetchCalls[c]) = 1
      /\ fetchCalls[c][1].body =
           Str(<<"{">> \o JsonQuote(args[c].property) \o <<":">>
                 \o JsonText(args[c].value) \o <<"}">>)

C9_Witness ==
  \E c \in Calls :
    /\ Invoked(c)
    /\ args[c].value = Str(S_ab)
    /\ args[c].config.method = Undefined
    /\ Len(fetchCalls[c]) = 1
    /\ fetchCalls[c][1].body =
         Str(<<"{", "\"", "i", "d", "\"", ":", "\"", "a", " ", "b", "\"", "}">>)

MapsBody(c) ==
  /\ pc[c] = "fetch"
  /\ ~IsGetOrHead(c)
  /\ args[c].config.mapBody \in {"wrap", "field"}
Mapped(c) == MapBodyFn(args[c].config.mapBody, args[c].value, object).v

\* C10 as stated: when the method permits a body and mapBody is configured,
\* the request carries the JSON text of mapBody(value, object), whatever
\* mapBody returns.
C10_Original ==
  \A c \in Calls :
    MapsBody(c) => fetchCalls[c][1].body = JSONstringify(Mapped(c))

\* C10, amended: when the method permits a body and mapBody is configured,
\* the request carries the JSON text of mapBody(value, object) if that
\* result is truthy, and no body if it is falsy (null, undefined, 0, false, "").
C10_MappedBody ==
  \A c \in Calls :
    MapsBody(c) =>
      /\ Len(fetchCalls[c]) = 1
      /\ Truthy(Mapped(c)) => fetchCalls[c][1].body = JSONstringify(Mapped(c))
      /\ ~Truthy(Mapped(c)) => fetchCalls[c][1].body = Undefined

C10_Witness ==
  \E c \in Calls :
    /\ MapsBody(c)
    /\ args[c].config.method = Str(S_Put)
    /\ args[c].config.mapBody = "wrap"
    /\ args[c].value = Num(7)
    /\ fetchCalls[c][1].method = <<"P", "U", "T">>
    /\ fetchCalls[c][1].body =
         Str(<<"{", "\"", "c", "o", "d", "e", "\"", ":", "7", "}">>)

(***************************************************************************)
(* URL resolution (SpecUrl)                                                *)
(***************************************************************************)
Requested(c) == Len(fetchCalls[c]) > 0
Placeholder(c) == <<":">> \o args[c].property
\* the positions of the host at which the placeholder of the property starts
Occurrences(c) ==
  {i \in 1..Len(args[c].config.host) :
     MatchAt(args[c].config.host, Placeholder(c), i)}
\* the host with the occurrence at position i replaced by the text rep
Substituted(c, i, rep) ==
  SubSeq(args[c].config.host, 1, i - 1) \o rep
    \o SubSeq(args[c].config.host, i + Len(Placeholder(c)),
              Len(args[c].config.host))

NameChars ==
  {LowerLetters[i] : i \in DOMAIN LowerLetters}
    \cup {UpperLetters[i] : i \in DOMAIN UpperLetters}
    \cup {Digits[i] : i \in DOMAIN Digits} \cup {"_"}
\* the occurrence at position i is the start of a longer parameter name
LongerName(c, i) ==
  LET after == i + Len(Placeholder(c))
  IN after <= Len(args[c].config.host) /\ args[c].config.host[after] \in NameChars

\* C12: URL injection occurs only for placeholders that exactly match the
\* property name: a host whose only placeholders name a longer field (":idx"
\* for the property "id") is requested unchanged.
C12_ExactMatch ==
  \A c \in Calls :
    (Requested(c) /\ \A i \in Occurrences(c) : LongerName(c, i)) =>
      fetchCalls[c][1].url = args[c].config.host

(***************************************************************************)
(* The response body, the request count, the message (Spec)                *)
(***************************************************************************)
\* C13: a response whose body cannot be parsed as JSON does not by itself
\* fail the validation: the body is null, extractValue is not called and no
\* field is written, and the result is the predicate's value on
\* {status, body: null} or, without a predicate, true exactly for a 2xx status.
C13_UnparseableBody ==
  \A c \in Calls :
    (pc[c] = "done" /\ Has(c, "unparseable")) =>
      /\ data[c] = Null
      /\ ~Has(c, "extractValue") /\ ~Has(c, "write")
      /\ object = snapshot[c]
      /\ args[c].config.validate = "unset" =>
           result[c] = Fulfilled(Bool(response[c].status \in 200..299))
      /\ args[c].config.validate = "custom" =>
           result[c] = Fulfilled(ValidateFn("custom", response[c].status, Null).v)

C13_Witness ==
  \E c \in Calls :
    /\ pc[c] = "done" /\ Has(c, "unparseable")
    /\ args[c].config.extractValue = "self"
    /\ args[c].config.targetField = Str(S_t)
    /\ args[c].config.validate = "unset"
    /\ response[c].status = 299
    /\ result[c] = Fulfilled(Bool(TRUE))

\* an error is raised before the request is sent: mapBody is called (the
\* method permits a body) and throws
FailsBeforeRequest(c) ==
  /\ args[c].config.mapBody = "throws"
  /\ ~IsGetOrHead(c)

\* C14: a call of validate issues at most one HTTP request, also after a
\* failure (no retry), and exactly one when the value is non-empty and no
\* error is raised before the request is sent.
C14_OneRequest ==
  \A c \in Calls :
    /\ Len(fetchCalls[c]) <= 1
    /\ (Invoked(c) /\ Truthy(args[c].value) /\ ~FailsBeforeRequest(c)) =>
         Len(fetchCalls[c]) = 1

C14_Witness ==
  \E c \in Calls :
    /\ pc[c] = "done"
    /\ Has(c, "networkError")
    /\ result[c] = Fulfilled(Bool(FALSE))
    /\ Len(fetchCalls[c]) = 1

\* C15: the default message is "<property> is required." exactly when the
\* value is empty/falsy and config.required is true, and "<property> is
\* invalid according to external validation." otherwise: it depends on the
\* value and on required only, never on why the validation failed.
C15_DefaultMessage ==
  \A c \in Calls :
    message[c] # NoMessage =>
      message[c] =
        IF args[c].value \in FalsyValues /\ args[c].config.required = Bool(TRUE)
          THEN args[c].property \o S_isRequired
          ELSE args[c].property \o S_isInvalid

C15_Witness ==
  \E c \in Calls :
    /\ args[c].value = Num(7)
    /\ args[c].config.required = Bool(TRUE)
    /\ Has(c, "AbortError")
    /\ message[c] =
         <<"i", "d", " ", "i", "s", " ", "i", "n", "v", "a", "l", "i", "d",
           " ", "a", "c", "c", "o", "r", "d", "i", "n", "g", " ", "t", "o",
           " ", "e", "x", "t", "e", "r", "n", "a", "l", " ", "v", "a", "l",
           "i", "d", "a", "t", "i", "o", "n", ".">>

(***************************************************************************)
(* Extraction, injection and predicate, in their order (Spec)              *)
(***************************************************************************)
\* C18: extractValue is invoked only when extractValue and targetField are
\* both configured and a body was obtained; with extractValue configured and
\* no targetField it is never called, and the result is the one the
\* predicate or the status gives.
C18_ExtractionGuarded ==
  \A c \in Calls :
    /\ Has(c, "extractValue") =>
         /\ args[c].config.extractValue # "unset"
         /\ Truthy(args[c].config.targetField)
         /\ Has(c, "parsed")
    /\ (/\ Completed(c)
        /\ args[c].config.extractValue # "unset"
        /\ ~Truthy(args[c].config.targetField)
        /\ args[c].config.validate = "unset") =>
         result[c] = Fulfilled(Bool(response[c].status \in 200..299))

Index(c, event) == CHOOSE i \in DOMAIN trace[c] : trace[c][i] = event
ExtractValueThrew(c) ==
  /\ Invoked(c)
  /\ args[c].config.extractValue = "throws"
  /\ Has(c, "extractValue")

\* C19: within one call the write to object[targetField] comes before the
\* predicate is invoked and is kept when the predicate returns false or
\* throws; if extractValue throws, the predicate is never invoked, the object
\* is unchanged and the result is false.
C19_WriteBeforePredicate ==
  \A c \in Calls :
    /\ (Has(c, "write") /\ Has(c, "validate")) =>
         Index(c, "write") < Index(c, "validate")
    /\ (pc[c] = "done" /\ Has(c, "write")) =>
         object[args[c].config.targetField.s] = Extracted(c)
    /\ ExtractValueThrew(c) =>
         /\ ~Has(c, "validate") /\ ~Has(c, "write")
         /\ object = snapshot[c]
         /\ Returned(c, FALSE)

C19_Witness ==
  \E c \in Calls :
    /\ pc[c] = "done"
    /\ args[c].config.validate = "throws"
    /\ args[c].config.extractValue = "pick"
    /\ Has(c, "write") /\ Has(c, "validate")
    /\ snapshot[c][S_t] = Str(S_old)
    /\ object[S_t] = Str(S_new)
    /\ result[c] = Fulfilled(Bool(FALSE))

(***************************************************************************)
(* Calls on one instance, one after another (SpecTurns)                    *)
(***************************************************************************)
\* the remote endpoint treated the two calls alike: the same network error
\* or none, the same status, and the same body or a body as unparseable
SameRemote(c, d) ==
  /\ Has(c, "networkError") <=> Has(d, "networkError")
  /\ Has(c, "AbortError") <=> Has(d, "AbortError")
  /\ response[c] = response[d]
  /\ \/ Has(c, "unparseable") /\ Has(d, "unparseable")
     \/ Has(c, "parsed") /\ Has(d, "parsed") /\ data[c] = data[d]
     \/ response[c] = NoResponse

\* C16: two calls of validate that have returned, made with the same value,
\* configuration and property on the same object contents and given the same
\* remote response, sent the same request, returned the same result and
\* wrote to the object alike, whatever calls were made before them.
C16_Stateless ==
  \A c, d \in Calls :
    (/\ pc[c] = "done" /\ pc[d] = "done"
     /\ args[c] = args[d]
     /\ snapshot[c] = snapshot[d]
     /\ SameRemote(c, d)) =>
      /\ fetchCalls[c] = fetchCalls[d]
      /\ result[c] = result[d]
      /\ Has(c, "write") <=> Has(d, "write")

C16_Witness ==
  \E c, d \in Calls :
    /\ c < d
    /\ \E h \in Calls : c < h /\ h < d /\ args[h] # args[c]
                        /\ pc[h] = "done" /\ data[h] # Null
    /\ pc[c] = "done" /\ pc[d] = "done"
    /\ args[c] = args[d]
    /\ snapshot[c] = snapshot[d]
    /\ response[c].status = 200 /\ response[d].status = 200
    /\ Has(c, "unparseable") /\ Has(d, "unparseable")
    /\ args[c].config.mapBody = "field"
    /\ fetchCalls[c] = fetchCalls[d]
    /\ result[d] = Fulfilled(Bool(TRUE))
    /\ ~Has(d, "write")

(***************************************************************************)
(* Termination (SpecLive)                                                  *)
(***************************************************************************)
\* C17: for a non-empty value validate eventually returns, the deadline
\* timer seeing to it, for every behaviour of the remote endpoint, including
\* one that sends the response headers in time and never finishes the body.
C17_Returns ==
  \A c \in Calls :
    (Invoked(c) /\ Truthy(args[c].value)) ~> (pc[c] = "done")

(***************************************************************************)
(* Suspension points (SpecPair)                                            *)
(***************************************************************************)
\* C20 as stated: the HTTP call is the only suspension point, so while a call
\* stands between the resolution of fetch and its return, no step of another
\* call (validator, continuation, timer callback, message) takes place.
C20_Original ==
  [][\A c \in Calls :
       pc[c] = "json" =>
         \A d \in Calls \ {c} :
           /\ pc'[d] = pc[d]
           /\ trace'[d] = trace[d]
           /\ message'[d] = message[d]]_vars

Suspended == {"fetch", "json"}
Resumptions ==
  {<<"ready", "done">>, <<"ready", "fetch">>, <<"fetch", "json">>,
   <<"fetch", "done">>, <<"json", "done">>}

\* C20, amended: a call has exactly two suspension points, the outbound HTTP
\* call and the read of the response body: it is suspended only there, each
\* step runs one call, and once the body read settles the call returns in
\* that same step, nothing being interleaved between the two.
C20_TwoSuspensions ==
  [][/\ \A c \in Calls :
          pc'[c] # pc[c] =>
            /\ <<pc[c], pc'[c]>> \in Resumptions
            /\ pc'[c] # "done" => pc'[c] \in Suspended
            /\ \A d \in Calls \ {c} : pc'[d] = pc[d]
     /\ \A c \in Calls :
          pc[c] = "json" /\ data'[c] # data[c] => pc'[c] = "done"]_vars

\* two calls stand between the resolution of fetch and their return: the
\* one whose fetch resolved last resumed while the other waited for its body
C20_Witness ==
  \E c, d \in Calls :
    /\ c # d
    /\ pc[c] = "json" /\ pc[d] = "json"
    /\ Has(c, "clearTimeout") /\ Has(d, "clearTimeout")

(***************************************************************************)
(* Two validators injecting into one object (SpecShared)                   *)
(***************************************************************************)
Target(c) == args[c].config.targetField.s
\* what the response of a call decides, by its status and body alone
Decided(c) ==
  IF response[c] = NoResponse THEN Bool(FALSE)
  ELSE IF args[c].config.validate = "unset"
    THEN Bool(response[c].status \in 200..299)
    ELSE Predicate(c).v
\* the calls that wrote into the field f
Writers(f) == {c \in Calls : Invoked(c) /\ Has(c, "write") /\ Target(c) = f}

\* with different target fields, whatever the order of the completions, the
\* results are what each response decides and each field holds what its
\* validator extracted, every other field being as before the calls
OrderIndependent ==
  \A c, d \in Calls :
    (/\ pc[c] = "done" /\ pc[d] = "done"
     /\ Target(c) # Target(d)) =>
      /\ result[c] = Fulfilled(Decided(c))
      /\ result[d] = Fulfilled(Decided(d))
      /\ \A f \in DOMAIN object :
           object[f] = IF Writers(f) = {} THEN SharedObject[f]
                       ELSE Extracted(CHOOSE w \in Writers(f) : TRUE)

\* a field changes only in the step that processes a response and injects
\* into it, and then it holds what that response gave
LastWriteWins ==
  /\ \A c \in Calls :
       (pc[c] = "json" /\ pc'[c] = "done" /\ Len(trace'[c]) > 0
        /\ \E i \in DOMAIN trace'[c] : trace'[c][i] = "write") =>
         object'[Target(c)] =
           ExtractValueFn(args[c].config.extractValue, data'[c]).v
  /\ \A f \in DOMAIN object :
       object'[f] # object[f] =>
         \E c \in Calls : pc[c] = "json" /\ pc'[c] = "done" /\ Target(c) = f

\* C21: two calls run concurrently on one object, without mapBody: with
\* different target fields every interleaving of the completions gives the
\* same two results and the same final object; with the same target field
\* the field holds what the response processed last gave.
C21_SharedObject == [][OrderIndependent' /\ LastWriteWins]_vars

C21_Witness ==
  /\ pc[1] = "done" /\ pc[2] = "done"
  /\ Target(1) = Target(2)
  /\ Has(1, "write") /\ Has(2, "write")
  /\ Extracted(1) # Extracted(2)
  /\ object[S_t] = Extracted(1)
  /\ object[S_u] = Undefined

(***************************************************************************)
(* The timer after the return (Spec)                                       *)
(***************************************************************************)
\* C22: whenever validate has returned, the deadline timer that call armed
\* is no longer pending: it was cancelled or it has fired, on the success
\* path and on every error path.
C22_TimerSettled ==
  \A c \in Calls : pc[c] = "done" => timer[c].state # "pending"

(***************************************************************************)
(* Every occurrence of the placeholder; the value in the request           *)
(***************************************************************************)
\* C23: the URL of the request holds no occurrence of ":" followed by the
\* field name: every occurrence in the host was replaced by the URL-encoded
\* value, also when the placeholder appears more than once.
C23_NoPlaceholderLeft ==
  \A c \in Calls :
    Requested(c) =>
      \A i \in 1..Len(fetchCalls[c][1].url) :
        ~MatchAt(fetchCalls[c][1].url, Placeholder(c), i)

\* the text s holds the text sub
Holds(s, sub) == \E i \in 1..Len(s) : MatchAt(s, sub, i)
\* the URL of the request holds the URL-encoded value
ValueInUrl(c) ==
  Holds(fetchCalls[c][1].url, EncodeURIComponent(args[c].value))
\* the body of the request holds the JSON text of the value
ValueInBody(c) ==
  /\ fetchCalls[c][1].body # Undefined
  /\ Holds(fetchCalls[c][1].body.s, JsonText(args[c].value))

\* C24 as stated: every request carries the value, in the URL or in the
\* body, whatever the configuration.
C24_Original ==
  \A c \in Calls : Requested(c) => (ValueInUrl(c) \/ ValueInBody(c))

\* C24, amended: the request carries the value in the URL when the host
\* holds the placeholder of the property, and in the body when the method
\* permits a body and no mapBody is configured; a request by GET or HEAD to a
\* host without the placeholder carries neither URL parameter nor body.
C24_CarriesValue ==
  \A c \in Calls :
    Requested(c) =>
      /\ Occurrences(c) # {} => ValueInUrl(c)
      /\ (~IsGetOrHead(c) /\ args[c].config.mapBody = "unset") => ValueInBody(c)
      /\ (IsGetOrHead(c) /\ Occurrences(c) = {}) =>
           /\ fetchCalls[c][1].url = args[c].config.host
           /\ fetchCalls[c][1].body = Undefined

C24_Witness ==
  \E c \in Calls :
    /\ Requested(c)
    /\ args[c].value = Str(S_ab)
    /\ args[c].config.host = HostPlain
    /\ args[c].config.method = Undefined
    /\ args[c].config.mapBody = "unset"
    /\ ~ValueInUrl(c)
    /\ fetchCalls[c][1].body =
         Str(<<"{", "\"", "i", "d", "\"", ":", "\"", "a", " ", "b", "\"", "}">>)
====
